---- MODULE Spec2Model ----
(***************************************************************************)
(* Model of the MySQL -> Redis migration demo: the slot router             *)
(* (get_hash_slot / get_cluster_node), the migration coordinator           *)
(* (RedisMigration.migrate_data), the query layer (RedisQueries) and the   *)
(* order in which DatabaseMigrationProject.run uses them.                  *)
(* Strings of the program are TLA+ strings, except the keys handed to the  *)
(* CRC16, which are sequences of Unicode code points.                      *)
(***************************************************************************)
EXTENDS Integers, Sequences, FiniteSets, TLC

VARIABLES
  \* ---- slot router harness ----
  hkey,        \* key given to get_hash_slot (sequence of code points)
  rawslot,     \* slot given directly to get_cluster_node, or -1
  wfirst,      \* first result of RedisMigration.get_hash_slot(hkey), or -1
  wlast,       \* latest result of RedisMigration.get_hash_slot(hkey), or -1
  rfirst,      \* first result of RedisQueries.get_hash_slot(hkey), or -1
  rlast,       \* latest result of RedisQueries.get_hash_slot(hkey), or -1
  nfirst,      \* first result of get_cluster_node, or 0
  nlast,       \* latest result of get_cluster_node, or 0
  \* ---- migration and queries ----
  mysql_data,  \* the snapshot handed to migrate_data
  connection,  \* RedisMigration.connection: "None", "live" or "dead"
  store,       \* the destination store: key -> [t |-> type, v |-> value]
  pc,          \* position of migrate_to_redis: "idle", in migrate_data "users",
               \* "hotels","bookings","finish", then "verify" and "return"
  idx,         \* index of the row the current loop is processing
  step,        \* next write of the current row (1..4)
  stats,       \* the local stats dictionary of migrate_data
  result,      \* the value migrate_data returned last
  writes,      \* commands issued by the current/last run, in order, each with the
               \* id of the row it belongs to and whether it returned
  runs,        \* successful runs since the destination was last cleared
  epoch,       \* how many times the destination has been cleared
  firstRun,    \* the store as the first successful run on a clean store left it
  history,     \* the value get_user_booking_history returned last
  answer,      \* the query that was answered last (the other RedisQueries methods)
  crc16,       \* whether `import crc16` finds the module: "installed" or "missing"
  dial,        \* the call of a connect method that is under way or returned last
  verification \* what the verify_migration call of the run under way has done

svars == <<hkey, rawslot, wfirst, wlast, rfirst, rlast, nfirst, nlast>>
mvars == <<mysql_data, connection, store, pc, idx, step, stats, result,
           writes, runs, epoch, firstRun, history, answer, crc16, dial,
           verification>>
\* the migration and query variables without the connect call
cmvars == <<mysql_data, connection, store, pc, idx, step, stats, result,
            writes, runs, epoch, firstRun, history, answer, crc16, verification>>
vars == <<svars, mvars>>

(***************************************************************************)
(* Bounds                                                                  *)
(***************************************************************************)
MaxKeyLen == 2
MaxUsers == 2
MaxHotels == 2
MaxBookings == 2
MaxRuns == 2
MaxClears == 1
MaxRetries == 4

(***************************************************************************)
(* Slot router                                                             *)
(***************************************************************************)
TotalSlots == 16384
Node1Last == 5460
Node2Last == 10922
CrcPoly == 4129
CrcWidth == 65536
CrcTopBit == 32768

RECURSIVE Xor(_, _)
Xor(a, b) ==
  IF a = 0 THEN b
  ELSE IF b = 0 THEN a
  ELSE 2 * Xor(a \div 2, b \div 2) + (((a % 2) + (b % 2)) % 2)

\* str.encode('utf-8') of one code point
Utf8(c) ==
  IF c < 128 THEN <<c>>
  ELSE IF c < 2048 THEN <<192 + (c \div 64), 128 + (c % 64)>>
  ELSE IF c < 65536 THEN <<224 + (c \div 4096), 128 + ((c \div 64) % 64), 128 + (c % 64)>>
  ELSE <<240 + (c \div 262144), 128 + ((c \div 4096) % 64),
         128 + ((c \div 64) % 64), 128 + (c % 64)>>

RECURSIVE encode(_)
encode(key) ==
  IF key = <<>> THEN <<>> ELSE Utf8(Head(key)) \o encode(Tail(key))

RECURSIVE CrcShift(_, _)
CrcShift(crc, n) ==
  IF crc >= CrcTopBit
  THEN IF n = 0 THEN crc ELSE CrcShift(Xor((crc * 2) % CrcWidth, CrcPoly), n - 1)
  ELSE IF n = 0 THEN crc ELSE CrcShift((crc * 2) % CrcWidth, n - 1)

RECURSIVE crc16xmodem(_, _)
crc16xmodem(bytes, crc) ==
  IF bytes = <<>> THEN crc
  ELSE crc16xmodem(Tail(bytes), CrcShift(Xor(crc, Head(bytes) * 256), 8))

\* a get_hash_slot that chains the checksum of the previous call
Migration_get_hash_slot_chained(key) ==
  crc16xmodem(encode(key), IF wlast < 0 THEN 0 ELSE wlast) % TotalSlots

Migration_get_hash_slot(key) ==
  crc16xmodem(encode(key), 0) % TotalSlots

Queries_get_hash_slot(key) ==
  crc16xmodem(encode(key), 0) % TotalSlots

\* a get_cluster_node whose first boundary is exclusive
get_cluster_node_excl(slot) ==
  IF slot < Node1Last THEN 1
  ELSE IF slot <= Node2Last THEN 2
  ELSE 3

get_cluster_node(slot) ==
  IF slot <= Node1Last THEN 1
  ELSE IF slot <= Node2Last THEN 2
  ELSE 3

\* the slot table printed by display_cluster_info
display_cluster_info ==
  <<[first |-> 0, last |-> 5460, size |-> 5461],
    [first |-> 5461, last |-> 10922, size |-> 5462],
    [first |-> 10923, last |-> 16383, size |-> 5461]>>

(***************************************************************************)
(* Slot router harness: the input is either a key or a raw slot            *)
(***************************************************************************)
\* code points of '1', ':', 'u', U+00E9 and U+20AC
KeyAlphabet == {49, 58, 117, 233, 8364}

\* "123456789" and "user:1"
Key_123456789 == <<49, 50, 51, 52, 53, 54, 55, 56, 57>>
Key_user_1 == <<117, 115, 101, 114, 58, 49>>

KeyInputs ==
  UNION {[1..n -> KeyAlphabet] : n \in 0..MaxKeyLen} \cup {Key_123456789, Key_user_1}

RouterIdle ==
  /\ wfirst = -1 /\ wlast = -1 /\ rfirst = -1 /\ rlast = -1
  /\ nfirst = 0 /\ nlast = 0

\* RedisMigration.get_hash_slot(hkey)
CallMigrationHashSlot ==
  /\ rawslot = -1
  /\ LET slot == Migration_get_hash_slot(hkey) IN
       /\ wlast' = slot
       /\ wfirst' = IF wfirst = -1 THEN slot ELSE wfirst
  /\ UNCHANGED <<hkey, rawslot, rfirst, rlast, nfirst, nlast>>

\* RedisQueries.get_hash_slot(hkey)
CallQueriesHashSlot ==
  /\ rawslot = -1
  /\ LET slot == Queries_get_hash_slot(hkey) IN
       /\ rlast' = slot
       /\ rfirst' = IF rfirst = -1 THEN slot ELSE rfirst
  /\ UNCHANGED <<hkey, rawslot, wfirst, wlast, nfirst, nlast>>

\* node = self.get_cluster_node(hash_slot)
CallClusterNode ==
  /\ rawslot >= 0 \/ wlast >= 0
  /\ LET node == get_cluster_node(IF rawslot >= 0 THEN rawslot ELSE wlast) IN
       /\ nlast' = node
       /\ nfirst' = IF nfirst = 0 THEN node ELSE nfirst
  /\ UNCHANGED <<hkey, rawslot, wfirst, wlast, rfirst, rlast>>

(***************************************************************************)
(* Python text conversions                                                 *)
(***************************************************************************)
PyNone == "<None>"

Digit(d) ==
  CASE d = 0 -> "0" [] d = 1 -> "1" [] d = 2 -> "2" [] d = 3 -> "3" [] d = 4 -> "4"
    [] d = 5 -> "5" [] d = 6 -> "6" [] d = 7 -> "7" [] d = 8 -> "8" [] d = 9 -> "9"

\* str(n) of a non-negative int
RECURSIVE Str(_)
Str(n) == IF n < 10 THEN Digit(n) ELSE Str(n \div 10) \o Digit(n % 10)

Pad2(n) == IF n < 10 THEN "0" \o Str(n) ELSE Str(n)

\* str(datetime.date)
StrDate(d) == Str(d[1]) \o "-" \o Pad2(d[2]) \o "-" \o Pad2(d[3])

\* str(datetime.datetime)
StrDateTime(t) ==
  StrDate(t) \o " " \o Pad2(t[4]) \o ":" \o Pad2(t[5]) \o ":" \o Pad2(t[6])

(***************************************************************************)
(* The source snapshot (MySQLOperations.get_all_data)                      *)
(***************************************************************************)
CreatedAt == <<2024, 1, 15, 10, 30, 0>>
Cities == {"Paris", "New York"}

UserName(i) == IF i = 1 THEN "Alice" ELSE IF i = 2 THEN "Bob" ELSE "User" \o Str(i)
OwnEmail(i) == IF i = 1 THEN "a@x.com" ELSE "u" \o Str(i) \o "@x.com"
HotelName(i) == IF i = 1 THEN "Grand" ELSE "Hotel" \o Str(i)

UserRow(i, email) == [id |-> i, name |-> UserName(i), email |-> email, created_at |-> CreatedAt]

\* rows of table Users: ids 1..n; the last user may repeat the email of the first
UserTables ==
  UNION {{[i \in 1..n |-> UserRow(i, IF shared /\ i = n THEN OwnEmail(1) ELSE OwnEmail(i))] :
           shared \in (IF n >= 2 THEN BOOLEAN ELSE {FALSE})} :
         n \in 0..MaxUsers}

HotelRow(i, city) == [id |-> i, name |-> HotelName(i), city |-> city, created_at |-> CreatedAt]

\* rows of table Hotels: ids 1..n, all in Paris or only the first of them
HotelTables ==
  UNION {{[i \in 1..n |-> HotelRow(i, IF same \/ i = 1 THEN "Paris" ELSE "New York")] :
           same \in (IF n >= 2 THEN BOOLEAN ELSE {TRUE})} :
         n \in 0..MaxHotels}

BookingRow(i, u, h, d) ==
  [id |-> i, user_id |-> u, hotel_id |-> h, date |-> d, created_at |-> CreatedAt]

\* the date booked at a hotel: bookings of the same hotel share their date
DateAt(h) == IF h = 1 THEN <<2024, 5, 1>> ELSE <<2024, 12, 24>>

\* who books: always user 1, or users 2 and 1 in turn
UserPatterns == {"first", "alternate"}
UserAt(pattern, i) == IF pattern = "first" THEN 1 ELSE 1 + (i % 2)

\* what is booked: always hotel 1, or hotels 2 and 1 in turn
HotelPatterns == {"first", "alternate"}
HotelAt(pattern, i) == IF pattern = "first" THEN 1 ELSE 1 + (i % 2)

\* rows of table Bookings: unique ids 1..n, in ascending or descending order
BookingTables ==
  UNION {{[i \in 1..n |-> BookingRow(IF asc THEN i ELSE n + 1 - i, UserAt(up, i),
                                    HotelAt(hp, i), DateAt(HotelAt(hp, i)))] :
           asc \in (IF n >= 2 THEN BOOLEAN ELSE {TRUE}),
           up \in UserPatterns, hp \in HotelPatterns} :
         n \in 0..MaxBookings}

\* what get_all_data returns: the three tables, or {} after a read error
Snapshots ==
  {[users |-> us, hotels |-> hs, bookings |-> bs] :
     us \in UserTables, hs \in HotelTables, bs \in BookingTables} \cup {<<>>}

\* run has not called get_all_data yet
NotRead == [unread |-> TRUE]
SnapshotRead == "unread" \notin DOMAIN mysql_data

(***************************************************************************)
(* The destination store (the redis commands the program uses)             *)
(***************************************************************************)
EmptyStore == [key \in {} |-> [t |-> "none", v |-> {}]]

\* a command on a key holding another type raises WRONGTYPE
TypeOk(s, key, t) == IF key \in DOMAIN s THEN s[key].t = t ELSE TRUE

\* HSET key field value ...: sets the named fields, keeps the others
hset(s, key, mapping) ==
  (key :> [t |-> "hash",
           v |-> IF key \in DOMAIN s THEN mapping @@ s[key].v ELSE mapping]) @@ s

\* an SADD that overwrites the set
sadd_overwrite(s, key, member) == (key :> [t |-> "set", v |-> {Str(member)}]) @@ s

\* SADD key member: the client sends the int member as text
sadd(s, key, member) ==
  (key :> [t |-> "set",
           v |-> IF key \in DOMAIN s THEN s[key].v \cup {Str(member)}
                 ELSE {Str(member)}]) @@ s

\* an LPUSH that appends instead of prepending
rpush(s, key, value) ==
  (key :> [t |-> "list",
           v |-> IF key \in DOMAIN s THEN s[key].v \o <<Str(value)>>
                 ELSE <<Str(value)>>]) @@ s

\* an LPUSH that first removes the value from the list
RECURSIVE Without(_, _)
Without(l, x) ==
  IF l = <<>> THEN <<>>
  ELSE IF Head(l) = x THEN Without(Tail(l), x)
  ELSE <<Head(l)>> \o Without(Tail(l), x)

lpush_unique(s, key, value) ==
  (key :> [t |-> "list",
           v |-> IF key \in DOMAIN s THEN <<Str(value)>> \o Without(s[key].v, Str(value))
                 ELSE <<Str(value)>>]) @@ s

\* LPUSH key value: prepends
lpush(s, key, value) ==
  (key :> [t |-> "list",
           v |-> IF key \in DOMAIN s THEN <<Str(value)>> \o s[key].v
                 ELSE <<Str(value)>>]) @@ s

\* a SET that keeps the value of a key that exists (SET NX)
set_nx(s, key, value) ==
  IF key \in DOMAIN s THEN s ELSE (key :> [t |-> "string", v |-> Str(value)]) @@ s

\* SET key value: replaces whatever the key held
set(s, key, value) == (key :> [t |-> "string", v |-> Str(value)]) @@ s

\* HGETALL key: {} for an absent key
hgetall(s, key) == IF key \in DOMAIN s THEN s[key].v ELSE <<>>

\* LRANGE key 0 -1: [] for an absent key
lrange(s, key) == IF key \in DOMAIN s THEN s[key].v ELSE <<>>

\* SMEMBERS key: set() for an absent key
smembers(s, key) == IF key \in DOMAIN s THEN s[key].v ELSE {}

\* GET key: None for an absent key
get(s, key) == IF key \in DOMAIN s THEN s[key].v ELSE PyNone

\* a dict.get with a default of '' for a missing field
DictGet_blank(d, field) == IF field \in DOMAIN d THEN d[field] ELSE ""

\* dict.get(field)
DictGet(d, field) == IF field \in DOMAIN d THEN d[field] ELSE PyNone

(***************************************************************************)
(* RedisMigration.migrate_data                                             *)
(***************************************************************************)
NoStats == [users |-> 0, hotels |-> 0, bookings |-> 0]
Pending == [kind |-> "pending", stats |-> NoStats]
ReturnedNone == [kind |-> "None", stats |-> NoStats]
Returned(st) == [kind |-> "stats", stats |-> st]

NoHistory == [kind |-> "none", user |-> 0, val |-> <<>>]
NoAnswer == [op |-> "none", arg |-> "", val |-> [py |-> "None", v |-> <<>>]]

\* main.py:99: `if migration_stats:`; a dict of three entries is truthy, None
\* is not
Truthy(r) == r.kind = "stats"

NotVerified == [outcome |-> "none", read |-> <<>>]

Phases == {"users", "hotels", "bookings"}

\* a loop order that migrates the bookings before the hotels
NextPhase_bookings_first(phase) ==
  IF phase = "users" THEN "bookings" ELSE IF phase = "bookings" THEN "hotels" ELSE "finish"

NextPhase(phase) ==
  IF phase = "users" THEN "hotels" ELSE IF phase = "hotels" THEN "bookings" ELSE "finish"

\* where a for loop starts: its first row, or the next loop when it has none
RECURSIVE LoopEntry(_)
LoopEntry(phase) ==
  IF phase = "finish" THEN <<"finish", 0>>
  ELSE IF Len(mysql_data[phase]) > 0 THEN <<phase, 1>>
  ELSE LoopEntry(NextPhase(phase))

\* where control goes after the last statement of a loop body
AfterRow(phase, i) ==
  IF i < Len(mysql_data[phase]) THEN <<phase, i + 1>> ELSE LoopEntry(NextPhase(phase))

\* the row the current loop iteration is processing
row == mysql_data[pc][idx]

RecordKey(entity, id) == entity \o ":" \o Str(id)
UserBookingsKey(id) == "user:" \o Str(id) \o ":bookings"
EmailKey(email) == "user:email:" \o email
CityKey(city) == "hotels:city:" \o city
DateKey(date) == "bookings:date:" \o StrDate(date)

\* a user_data that stamps the record with the time of the run
user_data_stamped(user) ==
  [id |-> Str(user.id), name |-> user.name, email |-> user.email,
   created_at |-> Str(epoch)]

user_data(user) ==
  [id |-> Str(user.id), name |-> user.name, email |-> user.email,
   created_at |-> StrDateTime(user.created_at)]

\* a booking_data with the two foreign keys exchanged
booking_data_swapped(booking) ==
  [id |-> Str(booking.id), user_id |-> Str(booking.hotel_id),
   hotel_id |-> Str(booking.user_id), date |-> StrDate(booking.date),
   created_at |-> StrDateTime(booking.created_at)]

hotel_data(hotel) ==
  [id |-> Str(hotel.id), name |-> hotel.name, city |-> hotel.city,
   created_at |-> StrDateTime(hotel.created_at)]

booking_data(booking) ==
  [id |-> Str(booking.id), user_id |-> Str(booking.user_id),
   hotel_id |-> Str(booking.hotel_id), date |-> StrDate(booking.date),
   created_at |-> StrDateTime(booking.created_at)]

\* the redis command the run is about to issue
PendingWrite ==
  IF pc = "users" THEN
    IF step = 1 THEN [op |-> "hset", key |-> RecordKey("user", row.id)]
    ELSE IF step = 2 THEN [op |-> "sadd", key |-> "users:all"]
    ELSE [op |-> "set", key |-> EmailKey(row.email)]
  ELSE IF pc = "hotels" THEN
    IF step = 1 THEN [op |-> "hset", key |-> RecordKey("hotel", row.id)]
    ELSE IF step = 2 THEN [op |-> "sadd", key |-> "hotels:all"]
    ELSE [op |-> "sadd", key |-> CityKey(row.city)]
  ELSE
    IF step = 1 THEN [op |-> "hset", key |-> RecordKey("booking", row.id)]
    ELSE IF step = 2 THEN [op |-> "lpush", key |-> UserBookingsKey(row.user_id)]
    ELSE IF step = 3 THEN [op |-> "sadd", key |-> DateKey(row.date)]
    ELSE [op |-> "sadd", key |-> "bookings:all"]

OpType(op) ==
  IF op = "hset" THEN "hash" ELSE IF op = "sadd" THEN "set"
  ELSE IF op = "lpush" THEN "list" ELSE "string"

\* a store that was left half-migrated by a failed run
Partial == result.kind = "None" /\ \E i \in 1..Len(writes) : writes[i].ok

\* the write at (phase, s) returns: the store changes and the write is logged
Issue(phase, s, newStore) ==
  /\ pc = phase /\ step = s
  /\ connection = "live"
  /\ IF PendingWrite.op = "set" THEN TRUE
     ELSE TypeOk(store, PendingWrite.key, OpType(PendingWrite.op))
  /\ store' = newStore
  /\ writes' = Append(writes, [op |-> PendingWrite.op, key |-> PendingWrite.key,
                               id |-> row.id, ok |-> TRUE])

\* the write was not the last of its row
SameRow ==
  /\ step' = step + 1
  /\ UNCHANGED <<pc, idx, stats>>

\* a counter update that always counts a user
increment_users(st, entity) == [st EXCEPT !["users"] = @ + 1]

\* stats[entity] += 1
increment(st, entity) == [st EXCEPT ![entity] = @ + 1]

\* the write was the last of its row: the counter is updated and the loop goes on
RowDone ==
  /\ stats' = increment(stats, pc)
  /\ pc' = AfterRow(pc, idx)[1]
  /\ idx' = AfterRow(pc, idx)[2]
  /\ step' = 1

Frame ==
  UNCHANGED <<svars, dial, verification, mysql_data, connection, result, runs, epoch, firstRun, history,
              answer, crc16>>

\* lines 131-148: the connection check, the counters, entry into the first loop.
\* A run that failed half-way is not resumed: the next run starts from a store
\* that setup has cleared.
migrate_data_call ==
  /\ pc = "idle"
  /\ SnapshotRead
  /\ runs < MaxRuns
  /\ ~Partial
  /\ writes' = <<>>
  /\ history' = NoHistory
  /\ answer' = NoAnswer
  /\ stats' = NoStats
  /\ step' = 1
  /\ IF connection = "None" \/ "users" \notin DOMAIN mysql_data
     THEN /\ result' = ReturnedNone
          /\ UNCHANGED <<pc, idx>>
     ELSE /\ result' = Pending
          /\ pc' = LoopEntry("users")[1]
          /\ idx' = LoopEntry("users")[2]
  /\ UNCHANGED <<svars, dial, verification, mysql_data, connection, store, runs, epoch, firstRun, crc16>>

\* line 161
UserHset ==
  /\ Issue("users", 1, hset(store, RecordKey("user", row.id), user_data(row)))
  /\ SameRow /\ Frame

\* line 168
UserSaddAll ==
  /\ Issue("users", 2, sadd(store, "users:all", row.id))
  /\ SameRow /\ Frame

\* lines 171-174
UserSetEmail ==
  /\ Issue("users", 3, set(store, EmailKey(row.email), row.id))
  /\ RowDone /\ Frame

\* line 191
HotelHset ==
  /\ Issue("hotels", 1, hset(store, RecordKey("hotel", row.id), hotel_data(row)))
  /\ SameRow /\ Frame

\* line 198
HotelSaddAll ==
  /\ Issue("hotels", 2, sadd(store, "hotels:all", row.id))
  /\ SameRow /\ Frame

\* a city index keyed by the name of the hotel
HotelSaddCity_by_name ==
  /\ Issue("hotels", 3, sadd(store, CityKey(row.name), row.id))
  /\ RowDone /\ Frame

\* lines 199-202
HotelSaddCity ==
  /\ Issue("hotels", 3, sadd(store, CityKey(row.city), row.id))
  /\ RowDone /\ Frame

\* line 220
BookingHset ==
  /\ Issue("bookings", 1, hset(store, RecordKey("booking", row.id), booking_data(row)))
  /\ SameRow /\ Frame

\* a relationship list keyed by the hotel of the booking
BookingLpush_by_hotel ==
  /\ Issue("bookings", 2, lpush(store, UserBookingsKey(row.hotel_id), row.id))
  /\ SameRow /\ Frame

\* lines 226-227
BookingLpush ==
  /\ Issue("bookings", 2, lpush(store, UserBookingsKey(row.user_id), row.id))
  /\ SameRow /\ Frame

\* lines 233-234
BookingSaddDate ==
  /\ Issue("bookings", 3, sadd(store, DateKey(row.date), row.id))
  /\ SameRow /\ Frame

\* lines 235-237
BookingSaddAll ==
  /\ Issue("bookings", 4, sadd(store, "bookings:all", row.id))
  /\ RowDone /\ Frame

\* a handler that empties the store before it returns None
migrate_data_except_rollback ==
  /\ pc \in Phases
  /\ writes' = Append(writes, [op |-> PendingWrite.op, key |-> PendingWrite.key,
                               id |-> row.id, ok |-> FALSE])
  /\ result' = ReturnedNone
  /\ pc' = "idle"
  /\ store' = EmptyStore
  /\ UNCHANGED <<svars, dial, verification, mysql_data, connection, idx, step, stats, runs, epoch,
                 firstRun, history, answer, crc16>>

\* lines 251-253: a write raised; nothing is undone and None is returned
migrate_data_except ==
  /\ pc \in Phases
  /\ writes' = Append(writes, [op |-> PendingWrite.op, key |-> PendingWrite.key,
                               id |-> row.id, ok |-> FALSE])
  /\ result' = ReturnedNone
  /\ pc' = "idle"
  /\ UNCHANGED <<svars, dial, verification, mysql_data, connection, store, idx, step, stats, runs, epoch,
                 firstRun, history, answer, crc16>>

\* lines 239-249: the summary is printed and the counters are returned
migrate_data_return ==
  /\ pc = "finish"
  /\ result' = Returned(stats)
  /\ pc' = IF Truthy(Returned(stats)) THEN "verify" ELSE "idle"
  /\ runs' = runs + 1
  /\ firstRun' = IF ~firstRun.set /\ runs = 0 THEN [set |-> TRUE, s |-> store] ELSE firstRun
  /\ UNCHANGED <<svars, dial, verification, mysql_data, connection, store, idx, step, stats, writes, epoch,
                 history, answer, crc16>>

(***************************************************************************)
(* RedisMigration.verify_migration and the return of migrate_to_redis       *)
(***************************************************************************)
Read(cmd, key) == [cmd |-> cmd, key |-> key]

\* the type of value a read command answers for; another type is WRONGTYPE
ReadType(cmd) ==
  IF cmd = "hgetall" THEN "hash" ELSE IF cmd = "lrange" THEN "list" ELSE "set"

\* redis_migration.py:305-324: the reads of verify_migration in the order it
\* issues them; the bookings read are those the list of user 1 names
sample_queries(s) ==
  <<Read("hgetall", "user:1"), Read("lrange", "user:1:bookings")>>
  \o (IF TypeOk(s, "user:1:bookings", "list")
      THEN [i \in 1..Len(lrange(s, "user:1:bookings")) |->
              Read("hgetall", "booking:" \o lrange(s, "user:1:bookings")[i])]
      ELSE <<>>)
  \o <<Read("smembers", "users:all"), Read("smembers", "hotels:city:New York")>>

\* the first n reads of verify_migration can all return
Readable(s, n) ==
  \A k \in 1..n : TypeOk(s, sample_queries(s)[k].key, ReadType(sample_queries(s)[k].cmd))

\* what the call did when its first n reads returned: all of them, or the read
\* after them raised and the handler of line 330 printed the error
Verified(s, n) ==
  [outcome |-> IF n = Len(sample_queries(s)) THEN "complete" ELSE "error",
   read |-> SubSeq(sample_queries(s), 1, n)]

\* a verification that gates the migration: a failed read withdraws the counters
verify_migration_gate ==
  /\ pc = "verify"
  /\ \E n \in 0..Len(sample_queries(store)) :
       /\ Readable(store, n)
       /\ verification' = Verified(store, n)
       /\ result' = IF Verified(store, n).outcome = "error" THEN ReturnedNone ELSE result
  /\ pc' = "return"
  /\ UNCHANGED <<svars, dial, mysql_data, connection, store, idx, step, stats, writes,
                 runs, epoch, firstRun, history, answer, crc16>>

\* redis_migration.py:293-331, called in main.py:99-100: the reads are issued
\* until one raises (the server stops answering, or a key holds another type);
\* the except clause prints the error and the method returns
verify_migration ==
  /\ pc = "verify"
  /\ \E n \in 0..Len(sample_queries(store)) :
       /\ Readable(store, n)
       /\ verification' = Verified(store, n)
  /\ pc' = "return"
  /\ UNCHANGED <<svars, dial, mysql_data, connection, store, idx, step, stats, result,
                 writes, runs, epoch, firstRun, history, answer, crc16>>

\* main.py:102: `return migration_stats`; the call of verify_migration is over
migrate_to_redis_return ==
  /\ pc = "return"
  /\ pc' = "idle"
  /\ verification' = NotVerified
  /\ UNCHANGED <<svars, dial, mysql_data, connection, store, idx, step, stats, result,
                 writes, runs, epoch, firstRun, history, answer, crc16>>

(***************************************************************************)
(* DatabaseMigrationProject.run: the snapshot read, RedisMigration.connect *)
(* and the cluster setup                                                   *)
(***************************************************************************)
\* main.py:186: get_all_data returns the snapshot that run hands on
get_all_data ==
  /\ pc = "idle"
  /\ ~SnapshotRead
  /\ \E snapshot \in Snapshots : mysql_data' = snapshot
  /\ UNCHANGED <<svars, dial, verification, connection, store, pc, idx, step, stats, result, writes, runs,
                 epoch, firstRun, history, answer, crc16>>

\* connect: a ping answered leaves a live client; when every attempt fails
\* the client object assigned in line 52 stays behind, unconnected
\* (main.py:89-91 connects a newly constructed RedisMigration)
connect ==
  /\ pc = "idle"
  /\ SnapshotRead
  /\ connection = "None"
  /\ \E outcome \in {"live", "dead"} : connection' = outcome
  /\ UNCHANGED <<svars, dial, verification, mysql_data, store, pc, idx, step, stats, result, writes, runs,
                 epoch, firstRun, history, answer, crc16>>

\* RedisClusterSetup.setup: the node directories are removed and fresh nodes
\* started; the next migration is run by a new process
setup ==
  /\ pc = "idle"
  /\ epoch < MaxClears
  /\ store' = EmptyStore
  /\ connection' = "None"
  /\ result' = Pending
  /\ writes' = <<>>
  /\ history' = NoHistory
  /\ answer' = NoAnswer
  /\ runs' = 0
  /\ epoch' = epoch + 1
  /\ UNCHANGED <<svars, dial, verification, mysql_data, pc, idx, step, stats, firstRun, crc16>>

(***************************************************************************)
(* RedisQueries.get_user_booking_history                                   *)
(***************************************************************************)
\* f"{value}" of a value that may be None
Fmt(v) == IF v = PyNone THEN "None" ELSE v

\* an entry that reports the city of the hotel as its name
combined_info_city_as_name(b, h) ==
  [booking_id |-> DictGet(b, "id"), date |-> DictGet(b, "date"),
   hotel_id |-> DictGet(h, "id"), hotel_name |-> DictGet(h, "city"),
   hotel_city |-> DictGet(h, "city"), created_at |-> DictGet(b, "created_at")]

\* lines 116-123
combined_info(b, h) ==
  [booking_id |-> DictGet(b, "id"), date |-> DictGet(b, "date"),
   hotel_id |-> DictGet(h, "id"), hotel_name |-> DictGet(h, "name"),
   hotel_city |-> DictGet(h, "city"), created_at |-> DictGet(b, "created_at")]

\* a loop over the booking ids that walks the list backwards
RECURSIVE booking_loop_reversed(_, _)
booking_loop_reversed(s, booking_ids) ==
  IF booking_ids = <<>> THEN <<>>
  ELSE LET b == hgetall(s, "booking:" \o Head(booking_ids)) IN
       booking_loop_reversed(s, Tail(booking_ids)) \o
         (IF DOMAIN b = {} THEN <<>>
          ELSE <<combined_info(b, hgetall(s, "hotel:" \o Fmt(DictGet(b, "hotel_id"))))>>)

\* lines 98-125: one entry per booking id whose record exists, in list order
RECURSIVE booking_loop(_, _)
booking_loop(s, booking_ids) ==
  IF booking_ids = <<>> THEN <<>>
  ELSE LET b == hgetall(s, "booking:" \o Head(booking_ids)) IN
       (IF DOMAIN b = {} THEN <<>>
        ELSE <<combined_info(b, hgetall(s, "hotel:" \o Fmt(DictGet(b, "hotel_id"))))>>)
         \o booking_loop(s, Tail(booking_ids))

\* a read of the history raises: the server is unreachable or a key has the wrong type
HistoryRaises(s, user_id) ==
  \/ connection = "dead"
  \/ ~TypeOk(s, RecordKey("user", user_id), "hash")
  \/ /\ DOMAIN hgetall(s, RecordKey("user", user_id)) # {}
     /\ \/ ~TypeOk(s, UserBookingsKey(user_id), "list")
        \/ \E i \in 1..Len(lrange(s, UserBookingsKey(user_id))) :
             LET bk == "booking:" \o lrange(s, UserBookingsKey(user_id))[i] IN
               \/ ~TypeOk(s, bk, "hash")
               \/ /\ DOMAIN hgetall(s, bk) # {}
                  /\ ~TypeOk(s, "hotel:" \o Fmt(DictGet(hgetall(s, bk), "hotel_id")), "hash")

\* RedisQueries.get_hash_slot raises: its `import crc16` (line 37) finds no module
SlotRaises == crc16 = "missing"

\* a history that always reads the relationship list of user 1
get_user_booking_history_first(s, user_id) ==
  IF connection = "None" THEN <<>>
  ELSE IF HistoryRaises(s, user_id) THEN <<>>
  ELSE IF DOMAIN hgetall(s, RecordKey("user", user_id)) = {} THEN <<>>
  ELSE IF SlotRaises THEN <<>>
  ELSE booking_loop(s, lrange(s, UserBookingsKey(1)))

\* lines 63-145; the slot of the list key is computed in line 85, inside the try
get_user_booking_history(s, user_id) ==
  IF connection = "None" THEN <<>>
  ELSE IF HistoryRaises(s, user_id) THEN <<>>
  ELSE IF DOMAIN hgetall(s, RecordKey("user", user_id)) = {} THEN <<>>
  ELSE IF SlotRaises THEN <<>>
  ELSE booking_loop(s, lrange(s, UserBookingsKey(user_id)))

CallBookingHistory ==
  /\ pc = "idle"
  /\ \E user_id \in 1..MaxUsers :
       history' = [kind |-> "list", user |-> user_id,
                   val |-> get_user_booking_history(store, user_id)]
  /\ answer' = NoAnswer
  /\ UNCHANGED <<svars, dial, verification, mysql_data, connection, store, pc, idx, step, stats, result,
                 writes, runs, epoch, firstRun, crc16>>

(***************************************************************************)
(* RedisQueries: the other queries                                         *)
(***************************************************************************)
\* the values the queries return: None, a dict, a list of dicts
ReturnNone == [py |-> "None", v |-> <<>>]
ReturnDict(d) == [py |-> "dict", v |-> d]
ReturnList(l) == [py |-> "list", v |-> l]

\* a read through self.connection raises: there is no client object
\* (AttributeError on None) or the server does not answer
NoServer == connection # "live"

\* the orders in which a for loop may walk the set that SMEMBERS returned
Orderings(members) ==
  {ids \in [1..Cardinality(members) -> members] :
     \A i, j \in 1..Cardinality(members) : i # j => ids[i] # ids[j]}

\* lines 169-174, 204-209, 264-269: the records of the ids, those found only
RECURSIVE record_loop(_, _, _)
record_loop(s, prefix, ids) ==
  IF ids = <<>> THEN <<>>
  ELSE LET d == hgetall(s, prefix \o Head(ids)) IN
       (IF DOMAIN d = {} THEN <<>> ELSE <<d>>) \o record_loop(s, prefix, Tail(ids))

\* SMEMBERS of the index or HGETALL of one of its members raises
IndexRaises(s, index_key, prefix) ==
  IF NoServer THEN TRUE
  ELSE IF ~TypeOk(s, index_key, "set") THEN TRUE
  ELSE \E m \in smembers(s, index_key) : ~TypeOk(s, prefix \o m, "hash")

\* the members of an index, or none when they cannot be read
IndexMembers(s, index_key, prefix) ==
  IF IndexRaises(s, index_key, prefix) THEN {} ELSE smembers(s, index_key)

\* lines 159-180; ids is the order in which the set is walked
get_hotels_by_city(s, city, ids) ==
  IF IndexRaises(s, "hotels:city:" \o city, "hotel:") THEN ReturnList(<<>>)
  ELSE IF ids = <<>> THEN ReturnList(<<>>)
  ELSE ReturnList(record_loop(s, "hotel:", ids))

\* lines 194-215
get_bookings_by_date(s, date, ids) ==
  IF IndexRaises(s, "bookings:date:" \o date, "booking:") THEN ReturnList(<<>>)
  ELSE IF ids = <<>> THEN ReturnList(<<>>)
  ELSE ReturnList(record_loop(s, "booking:", ids))

\* lines 260-275
get_all_users(s, ids) ==
  IF IndexRaises(s, "users:all", "user:") THEN ReturnList(<<>>)
  ELSE ReturnList(record_loop(s, "user:", ids))

\* GET of the email key or HGETALL of the user it names raises
UserByEmailRaises(s, email) ==
  IF NoServer THEN TRUE
  ELSE IF ~TypeOk(s, EmailKey(email), "string") THEN TRUE
  ELSE IF get(s, EmailKey(email)) = PyNone THEN FALSE
  ELSE ~TypeOk(s, "user:" \o get(s, EmailKey(email)), "hash")

\* lines 229-249: the second lookup is returned as it is, {} when the record is absent
get_user_by_email(s, email) ==
  IF UserByEmailRaises(s, email) THEN ReturnNone
  ELSE IF get(s, EmailKey(email)) = PyNone THEN ReturnNone
  ELSE ReturnDict(hgetall(s, "user:" \o get(s, EmailKey(email))))

\* HGETALL/HGET of the user key or LRANGE of its list raises
SearchRaises(s, user_id) ==
  IF NoServer THEN TRUE
  ELSE IF ~TypeOk(s, RecordKey("user", user_id), "hash") THEN TRUE
  ELSE IF DOMAIN hgetall(s, RecordKey("user", user_id)) = {} THEN FALSE
  ELSE ~TypeOk(s, UserBookingsKey(user_id), "list")

\* lines 292-340: the slot of the user key is computed first (line 294)
search_user_by_id(s, user_id) ==
  IF SlotRaises THEN ReturnNone
  ELSE IF SearchRaises(s, user_id) THEN ReturnNone
  ELSE IF DOMAIN hgetall(s, RecordKey("user", user_id)) = {} THEN ReturnNone
  ELSE ReturnDict(hgetall(s, RecordKey("user", user_id)))

\* the arguments the queries are called with
EmailInputs == {OwnEmail(i) : i \in 1..MaxUsers} \cup {"nobody@x.com"}
CityInputs == Cities \cup {"Rome"}
DateInputs == {StrDate(DateAt(h)) : h \in 1..2} \cup {"2025-01-01"}

Answered == UNCHANGED <<svars, dial, verification, mysql_data, connection, store, pc, idx, step, stats, result,
                        writes, runs, epoch, firstRun, crc16>>

CallHotelsByCity ==
  /\ pc = "idle"
  /\ \E city \in CityInputs :
       \E ids \in Orderings(IndexMembers(store, "hotels:city:" \o city, "hotel:")) :
         answer' = [op |-> "get_hotels_by_city", arg |-> city,
                    val |-> get_hotels_by_city(store, city, ids)]
  /\ history' = NoHistory
  /\ Answered

CallBookingsByDate ==
  /\ pc = "idle"
  /\ \E date \in DateInputs :
       \E ids \in Orderings(IndexMembers(store, "bookings:date:" \o date, "booking:")) :
         answer' = [op |-> "get_bookings_by_date", arg |-> date,
                    val |-> get_bookings_by_date(store, date, ids)]
  /\ history' = NoHistory
  /\ Answered

CallAllUsers ==
  /\ pc = "idle"
  /\ \E ids \in Orderings(IndexMembers(store, "users:all", "user:")) :
       answer' = [op |-> "get_all_users", arg |-> "",
                  val |-> get_all_users(store, ids)]
  /\ history' = NoHistory
  /\ Answered

CallUserByEmail ==
  /\ pc = "idle"
  /\ \E email \in EmailInputs :
       answer' = [op |-> "get_user_by_email", arg |-> email,
                  val |-> get_user_by_email(store, email)]
  /\ history' = NoHistory
  /\ Answered

CallSearchUserById ==
  /\ pc = "idle"
  /\ \E user_id \in 1..MaxUsers :
       answer' = [op |-> "search_user_by_id", arg |-> Str(user_id),
                  val |-> search_user_by_id(store, user_id)]
  /\ history' = NoHistory
  /\ Answered

(***************************************************************************)
(* RedisMigration.connect and MySQLOperations.connect: the retry loops     *)
(***************************************************************************)
\* the values of retry_delay the methods are called with (main.py passes 3)
RetryDelays == {1, 3}

NoDial == [who |-> "none", max_retries |-> 0, retry_delay |-> 0, log |-> <<>>,
           outcome |-> "idle"]

\* what a call has done so far: its attempts ("ok": connected, "raise": the try
\* block raised, "down": the connection object reports it is not connected) and
\* its sleeps
Event(e, secs) == [e |-> e, secs |-> secs]

\* the value of the loop variable attempt during the attempt under way
attempt == Cardinality({k \in 1..Len(dial.log) : dial.log[k].e # "sleep"}) + 1

\* the call: range(1, max_retries + 1) is empty for max_retries = 0 and the
\* method falls through to `return False`
connect_call ==
  /\ dial.outcome = "idle"
  /\ \E who \in {"redis", "mysql"}, max_retries \in 0..MaxRetries,
        retry_delay \in RetryDelays :
       dial' = [who |-> who, max_retries |-> max_retries, retry_delay |-> retry_delay,
                log |-> <<>>,
                outcome |-> IF max_retries = 0 THEN "False" ELSE "running"]

\* redis_migration.py:50-66, mysql_operations.py:57-73: the attempt connects
\* and the method returns True
connect_attempt_ok ==
  /\ dial.outcome = "running"
  /\ dial' = [dial EXCEPT !.log = Append(@, Event("ok", 0)), !.outcome = "True"]

\* redis_migration.py:68-74, mysql_operations.py:75-82: the try block raised;
\* the handler sleeps and the loop goes on, or raises after the last attempt
connect_attempt_raises ==
  /\ dial.outcome = "running"
  /\ dial' = IF attempt < dial.max_retries
             THEN [dial EXCEPT !.log = @ \o <<Event("raise", 0),
                                              Event("sleep", dial.retry_delay)>>]
             ELSE [dial EXCEPT !.log = Append(@, Event("raise", 0)),
                               !.outcome = "raised"]

\* mysql_operations.py:65 and 84: mysql.connector.connect returned a connection
\* whose is_connected() is False; nothing is raised, the loop goes on at once
\* and, after the last attempt, the method returns False
mysql_attempt_not_connected ==
  /\ dial.outcome = "running"
  /\ dial.who = "mysql"
  /\ dial' = [dial EXCEPT !.log = Append(@, Event("down", 0)),
                          !.outcome = IF attempt < dial.max_retries THEN "running"
                                      ELSE "False"]

(***************************************************************************)
(* Specifications                                                          *)
(***************************************************************************)
MigrationIdle ==
  /\ connection = "None"
  /\ store = EmptyStore
  /\ pc = "idle" /\ idx = 0 /\ step = 1
  /\ stats = NoStats
  /\ result = Pending
  /\ writes = <<>>
  /\ runs = 0 /\ epoch = 0
  /\ firstRun = [set |-> FALSE, s |-> EmptyStore]
  /\ history = NoHistory
  /\ answer = NoAnswer
  /\ crc16 = "installed"
  /\ dial = NoDial
  /\ verification = NotVerified

Init ==
  /\ mysql_data = NotRead
  /\ MigrationIdle
  /\ hkey = <<>> /\ rawslot = -1 /\ RouterIdle

\* a run that goes on to the queries whatever the migration returned
execute_redis_queries_always == TRUE

\* main.py:190-192: run reaches the queries when migrate_to_redis returned
\* counters (a dict of three entries is truthy) and the snapshot is not {}
execute_redis_queries ==
  pc = "idle" /\ result.kind = "stats" /\ DOMAIN mysql_data # {}

\* The queries only read, and history and answer hold the last answer alone, so
\* a query asked after another one leads to the state it leads to when asked
\* first; the calls explored are those asked of a state that holds no answer.
Unanswered == history = NoHistory /\ answer = NoAnswer

Next ==
  \/ get_all_data
  \/ connect
  \/ setup
  \/ migrate_data_call
  \/ UserHset
  \/ UserSaddAll
  \/ UserSetEmail
  \/ HotelHset
  \/ HotelSaddAll
  \/ HotelSaddCity
  \/ BookingHset
  \/ BookingLpush
  \/ BookingSaddDate
  \/ BookingSaddAll
  \/ migrate_data_except
  \/ migrate_data_return
  \/ verify_migration
  \/ migrate_to_redis_return
  \/ execute_redis_queries /\ Unanswered /\ CallBookingHistory
  \/ execute_redis_queries /\ Unanswered /\ CallHotelsByCity
  \/ execute_redis_queries /\ Unanswered /\ CallBookingsByDate
  \/ execute_redis_queries /\ Unanswered /\ CallAllUsers
  \/ execute_redis_queries /\ Unanswered /\ CallUserByEmail
  \/ execute_redis_queries /\ Unanswered /\ CallSearchUserById

Spec == Init /\ [][Next]_vars

\* the queries applied to bounded stores
StoreOptions ==
  [user : {"absent", "hash", "string"}, email : BOOLEAN, list : BOOLEAN,
   booking : BOOLEAN, hotel : BOOLEAN, city : BOOLEAN, date : BOOLEAN, all : BOOLEAN]

StoreOf(o) ==
  LET s1 == IF o.user = "hash"
            THEN hset(EmptyStore, "user:1", user_data(UserRow(1, OwnEmail(1))))
            ELSE IF o.user = "string" THEN set(EmptyStore, "user:1", 1)
            ELSE EmptyStore
      s2 == IF o.email THEN set(s1, EmailKey(OwnEmail(1)), 1) ELSE s1
      s3 == IF o.list THEN lpush(s2, UserBookingsKey(1), 1) ELSE s2
      s4 == IF o.booking
            THEN hset(s3, "booking:1", booking_data(BookingRow(1, 1, 1, DateAt(1))))
            ELSE s3
      s5 == IF o.hotel THEN hset(s4, "hotel:1", hotel_data(HotelRow(1, "Paris"))) ELSE s4
      s6 == IF o.city THEN sadd(s5, CityKey("Paris"), 1) ELSE s5
      s7 == IF o.date THEN sadd(s6, DateKey(DateAt(1)), 1) ELSE s6
  IN IF o.all THEN sadd(s7, "users:all", 1) ELSE s7

StoreInputs == {StoreOf(o) : o \in StoreOptions}

InitQueries ==
  /\ store \in StoreInputs
  /\ connection \in {"None", "live", "dead"}
  /\ crc16 \in {"installed", "missing"}
  /\ mysql_data = <<>>
  /\ pc = "idle" /\ idx = 0 /\ step = 1
  /\ stats = NoStats
  /\ result = Pending
  /\ writes = <<>>
  /\ runs = 0 /\ epoch = 0
  /\ firstRun = [set |-> FALSE, s |-> EmptyStore]
  /\ history = NoHistory
  /\ answer = NoAnswer
  /\ dial = NoDial
  /\ verification = NotVerified
  /\ hkey = <<>> /\ rawslot = -1 /\ RouterIdle

NextQueries ==
  \/ CallBookingHistory
  \/ CallHotelsByCity
  \/ CallBookingsByDate
  \/ CallAllUsers
  \/ CallUserByEmail
  \/ CallSearchUserById

SpecQueries == InitQueries /\ [][NextQueries]_vars

\* the slot router applied to bounded inputs
InitRouter ==
  /\ \/ hkey \in KeyInputs /\ rawslot = -1
     \/ hkey = <<>> /\ rawslot \in 0..(TotalSlots - 1)
  /\ RouterIdle
  /\ mysql_data = <<>>
  /\ MigrationIdle

NextRouter ==
  \/ CallMigrationHashSlot /\ UNCHANGED mvars
  \/ CallQueriesHashSlot /\ UNCHANGED mvars
  \/ CallClusterNode /\ UNCHANGED mvars

SpecRouter == InitRouter /\ [][NextRouter]_vars

\* the connect methods called with bounded max_retries
InitConnect ==
  /\ mysql_data = <<>>
  /\ MigrationIdle
  /\ hkey = <<>> /\ rawslot = -1 /\ RouterIdle

NextConnect ==
  \/ connect_call /\ UNCHANGED <<svars, cmvars>>
  \/ connect_attempt_ok /\ UNCHANGED <<svars, cmvars>>
  \/ connect_attempt_raises /\ UNCHANGED <<svars, cmvars>>
  \/ mysql_attempt_not_connected /\ UNCHANGED <<svars, cmvars>>

SpecConnect == InitConnect /\ [][NextConnect]_vars

(***************************************************************************)
(* Slot router properties (checked under SpecRouter)                       *)
(***************************************************************************)
SlotsOf(node) == {s \in 0..(TotalSlots - 1) : get_cluster_node(s) = node}

\* C1: get_cluster_node splits 0..16383 into three contiguous ranges: every
\* slot is given a node in 1..3, the node does not decrease from a slot to the
\* next, the ranges are the printed ones (0..5460, 5461..10922, 10923..16383),
\* their sizes add up to 16384 and differ by at most 1.
C1_SlotPartition ==
  /\ (rawslot >= 0 /\ nlast # 0) =>
       /\ nlast \in 1..3
       /\ display_cluster_info[nlast].first <= rawslot
       /\ rawslot <= display_cluster_info[nlast].last
       /\ rawslot + 1 < TotalSlots => nlast <= get_cluster_node(rawslot + 1)
  /\ (rawslot = 0 /\ nlast # 0) =>
       LET size == [n \in 1..3 |-> Cardinality(SlotsOf(n))] IN
         /\ size[1] + size[2] + size[3] = TotalSlots
         /\ \A m, n \in 1..3 :
              /\ size[m] - size[n] <= 1
              /\ size[m] = display_cluster_info[m].size

\* a boundary slot has been resolved: 5461 is the first slot of node 2
C1_Witness == rawslot = Node1Last + 1 /\ nlast = 2

\* C2: the slot of a key is the CRC16 (XMODEM) of its UTF-8 bytes modulo 16384:
\* it lies in 0..16383, a repeated call returns the same slot and the same node,
\* and the write-time and the read-time implementation agree.
C2_HashSlotPure ==
  /\ wlast # -1 => wlast \in 0..(TotalSlots - 1) /\ wlast = wfirst
  /\ rlast # -1 => rlast \in 0..(TotalSlots - 1) /\ rlast = rfirst
  /\ (wlast # -1 /\ rlast # -1) => wlast = rlast
  /\ nlast # 0 => nlast = nfirst
  /\ (hkey = Key_123456789 /\ wlast # -1) => wlast = 12739
  /\ (hkey = <<233>> /\ rlast # -1) => rlast = 10180

\* both implementations have hashed "user:1" and its node has been resolved
C2_Witness ==
  /\ hkey = Key_user_1
  /\ wlast = 10778 /\ rlast = 10778 /\ nlast = 2

(***************************************************************************)
(* Migration properties (checked under Spec)                               *)
(***************************************************************************)
\* the text the store is expected to hold for the values of the snapshots
IdText(n) == CASE n = 1 -> "1" [] n = 2 -> "2" [] n = 3 -> "3" [] n = 4 -> "4"
DateText(d) == IF d = <<2024, 5, 1>> THEN "2024-05-01" ELSE "2024-12-24"
CreatedAtText == "2024-01-15 10:30:00"

UserRecord(id) == "user:" \o IdText(id)
HotelRecord(id) == "hotel:" \o IdText(id)
BookingRecord(id) == "booking:" \o IdText(id)
BookingsOf(id) == "user:" \o IdText(id) \o ":bookings"

\* migrate_data has returned its counters
Succeeded == pc = "idle" /\ result.kind = "stats"

\* ... and it was the first run since the destination store was empty
SucceededOnEmpty == Succeeded /\ runs = 1

HoldsHash(key, fields) ==
  /\ key \in DOMAIN store
  /\ store[key].t = "hash"
  /\ store[key].v = fields

RECURSIVE Count(_, _)
Count(l, x) ==
  IF l = <<>> THEN 0 ELSE (IF Head(l) = x THEN 1 ELSE 0) + Count(Tail(l), x)

Elements(l) == {l[i] : i \in 1..Len(l)}

\* C3: after a successful migration onto an empty store every source row has its
\* record key, holding exactly the fields of the row as text (user: id, name,
\* email, created_at; hotel: id, name, city, created_at; booking: id, user_id,
\* hotel_id, date, created_at), and there is no record for any other id.
C3_RecordsMatchRows ==
  SucceededOnEmpty =>
    /\ \A i \in 1..Len(mysql_data.users) :
         LET u == mysql_data.users[i] IN
           HoldsHash(UserRecord(u.id),
                     [id |-> IdText(u.id), name |-> u.name, email |-> u.email,
                      created_at |-> CreatedAtText])
    /\ \A i \in 1..Len(mysql_data.hotels) :
         LET h == mysql_data.hotels[i] IN
           HoldsHash(HotelRecord(h.id),
                     [id |-> IdText(h.id), name |-> h.name, city |-> h.city,
                      created_at |-> CreatedAtText])
    /\ \A i \in 1..Len(mysql_data.bookings) :
         LET b == mysql_data.bookings[i] IN
           HoldsHash(BookingRecord(b.id),
                     [id |-> IdText(b.id), user_id |-> IdText(b.user_id),
                      hotel_id |-> IdText(b.hotel_id), date |-> DateText(b.date),
                      created_at |-> CreatedAtText])
    /\ {k \in DOMAIN store : store[k].t = "hash"} =
         {UserRecord(mysql_data.users[i].id) : i \in 1..Len(mysql_data.users)} \cup
         {HotelRecord(mysql_data.hotels[i].id) : i \in 1..Len(mysql_data.hotels)} \cup
         {BookingRecord(mysql_data.bookings[i].id) : i \in 1..Len(mysql_data.bookings)}

\* a user, a hotel and a booking that references a different user and hotel id
\* have been migrated
C3_Witness ==
  /\ SucceededOnEmpty
  /\ Len(mysql_data.users) >= 1 /\ Len(mysql_data.hotels) >= 1
  /\ \E i \in 1..Len(mysql_data.bookings) :
       mysql_data.bookings[i].user_id # mysql_data.bookings[i].hotel_id

\* C4: after a successful migration onto an empty store (booking ids unique) the
\* list user:{u}:bookings holds each booking id of user u exactly once and no
\* other id, for every user id u.
C4_ListMembership ==
  SucceededOnEmpty =>
    \A u \in 1..(MaxUsers + 1) :
      LET l == IF BookingsOf(u) \in DOMAIN store THEN store[BookingsOf(u)].v ELSE <<>>
          mine == {i \in 1..Len(mysql_data.bookings) : mysql_data.bookings[i].user_id = u}
      IN /\ Elements(l) = {IdText(mysql_data.bookings[i].id) : i \in mine}
         /\ \A i \in mine : Count(l, IdText(mysql_data.bookings[i].id)) = 1

\* two bookings of one user, whose hotels differ from the user id, were migrated
C4_Witness ==
  /\ SucceededOnEmpty
  /\ \E i, j \in 1..Len(mysql_data.bookings) :
       /\ i # j
       /\ mysql_data.bookings[i].user_id = mysql_data.bookings[j].user_id
       /\ mysql_data.bookings[i].hotel_id # mysql_data.bookings[i].user_id

\* position of the first occurrence of x in l (0 when absent)
RECURSIVE FirstIndex(_, _)
FirstIndex(l, x) ==
  IF l = <<>> THEN 0
  ELSE IF Head(l) = x THEN 1
  ELSE IF FirstIndex(Tail(l), x) = 0 THEN 0 ELSE 1 + FirstIndex(Tail(l), x)

StoredList(u) == IF BookingsOf(u) \in DOMAIN store THEN store[BookingsOf(u)].v ELSE <<>>

\* C5: the relationship list is last-migrated-first: when bookings b1 and b2 of
\* one user come in this order in the snapshot, the id of b2 comes before the
\* id of b1 in user:{id}:bookings after the migration, and
\* get_user_booking_history returns its entries in the order of that list.
C5_LastMigratedFirst ==
  Succeeded =>
    /\ \A i, j \in 1..Len(mysql_data.bookings) :
         LET b1 == mysql_data.bookings[i]
             b2 == mysql_data.bookings[j]
         IN (i < j /\ b1.user_id = b2.user_id) =>
              /\ FirstIndex(StoredList(b1.user_id), IdText(b2.id)) > 0
              /\ FirstIndex(StoredList(b1.user_id), IdText(b2.id))
                   < FirstIndex(StoredList(b1.user_id), IdText(b1.id))
    /\ history.kind = "list" =>
         IF connection = "live" /\ UserRecord(history.user) \in DOMAIN store
         THEN [i \in 1..Len(history.val) |-> history.val[i].booking_id]
                = StoredList(history.user)
         ELSE history.val = <<>>

\* the history of a migrated user with two bookings has been read, the bookings
\* being in descending id order in the snapshot
C5_Witness ==
  /\ Succeeded
  /\ history.kind = "list"
  /\ Len(history.val) >= 2
  /\ Len(mysql_data.bookings) >= 2
  /\ mysql_data.bookings[1].id > mysql_data.bookings[2].id

StoredSet(key) == IF key \in DOMAIN store THEN store[key].v ELSE {}

\* C6: after a successful migration onto an empty store users:all, hotels:all
\* and bookings:all are the sets of the source ids of their entity, as many as
\* there are source rows, and every member is the id of a migrated record.
C6_MembershipIndexes ==
  SucceededOnEmpty =>
    /\ StoredSet("users:all") =
         {IdText(mysql_data.users[i].id) : i \in 1..Len(mysql_data.users)}
    /\ Cardinality(StoredSet("users:all")) = Len(mysql_data.users)
    /\ \A m \in StoredSet("users:all") : ("user:" \o m) \in DOMAIN store
    /\ StoredSet("hotels:all") =
         {IdText(mysql_data.hotels[i].id) : i \in 1..Len(mysql_data.hotels)}
    /\ Cardinality(StoredSet("hotels:all")) = Len(mysql_data.hotels)
    /\ \A m \in StoredSet("hotels:all") : ("hotel:" \o m) \in DOMAIN store
    /\ StoredSet("bookings:all") =
         {IdText(mysql_data.bookings[i].id) : i \in 1..Len(mysql_data.bookings)}
    /\ Cardinality(StoredSet("bookings:all")) = Len(mysql_data.bookings)
    /\ \A m \in StoredSet("bookings:all") : ("booking:" \o m) \in DOMAIN store

\* two users, two hotels and two bookings have been migrated
C6_Witness ==
  /\ SucceededOnEmpty
  /\ Len(mysql_data.users) = 2 /\ Len(mysql_data.hotels) = 2
  /\ Len(mysql_data.bookings) = 2
  /\ Cardinality(StoredSet("bookings:all")) = 2

\* the commands migrate_data issues for one row of a table
RowCommands(entity, r) ==
  IF entity = "users" THEN
    {[op |-> "hset", key |-> UserRecord(r.id)], [op |-> "sadd", key |-> "users:all"],
     [op |-> "set", key |-> "user:email:" \o r.email]}
  ELSE IF entity = "hotels" THEN
    {[op |-> "hset", key |-> HotelRecord(r.id)], [op |-> "sadd", key |-> "hotels:all"],
     [op |-> "sadd", key |-> "hotels:city:" \o r.city]}
  ELSE
    {[op |-> "hset", key |-> BookingRecord(r.id)],
     [op |-> "lpush", key |-> BookingsOf(r.user_id)],
     [op |-> "sadd", key |-> "bookings:date:" \o DateText(r.date)],
     [op |-> "sadd", key |-> "bookings:all"]}

\* the rows of a table all of whose commands have been issued and have returned
Written(entity) ==
  {i \in 1..Len(mysql_data[entity]) :
     \A c \in RowCommands(entity, mysql_data[entity][i]) :
       \E j \in 1..Len(writes) :
         writes[j] = [op |-> c.op, key |-> c.key, id |-> mysql_data[entity][i].id,
                      ok |-> TRUE]}

\* C7: on success migrate_data returns counters equal to the numbers of User,
\* Hotel and Booking rows of its snapshot, and throughout the run each counter
\* is the number of rows of its kind whose writes have all been issued.
C7_StatsCountRows ==
  /\ Succeeded =>
       /\ result.stats.users = Len(mysql_data.users)
       /\ result.stats.hotels = Len(mysql_data.hotels)
       /\ result.stats.bookings = Len(mysql_data.bookings)
  /\ pc \in Phases \cup {"finish"} =>
       \A entity \in Phases : stats[entity] = Cardinality(Written(entity))

\* the run is inside the bookings loop with a row of every table written
C7_Witness ==
  /\ pc = "bookings" /\ idx = 2 /\ step = 3
  /\ stats.users >= 1 /\ stats.hotels >= 1 /\ stats.bookings = 1

\* C8: migrate_data returns the failure signal, never counters, whenever the
\* destination connection is unavailable or a write raised; without a
\* connection it issues no write at all.
C8_FailureSignal ==
  (pc = "idle" /\ result.kind # "pending") =>
    /\ (connection # "live" \/ \E j \in 1..Len(writes) : ~writes[j].ok) =>
         result.kind = "None"
    /\ connection = "None" => writes = <<>> /\ store = EmptyStore

\* the records, sets and email lookups of a store (everything but the lists)
Unordered(s) == [k \in {key \in DOMAIN s : s[key].t # "list"} |-> s[k]]

C10_RerunDuplicatesLists ==
  (Succeeded /\ runs >= 1 /\ firstRun.set) =>
    /\ Unordered(store) = Unordered(firstRun.s)
    /\ \A i \in 1..Len(mysql_data.bookings) :
         Count(StoredList(mysql_data.bookings[i].user_id),
               IdText(mysql_data.bookings[i].id)) = runs
    /\ \A u \in 1..(MaxUsers + 1) :
         Len(StoredList(u)) =
           runs * Cardinality({i \in 1..Len(mysql_data.bookings) :
                                 mysql_data.bookings[i].user_id = u})

\* the second run without clearing has returned; a user has two bookings
C10_Witness ==
  /\ Succeeded /\ runs = 2
  /\ \E u \in 1..MaxUsers : Len(StoredList(u)) = 4

(***************************************************************************)
(* Query layer properties                                                  *)
(***************************************************************************)
\* the store holds a record for user u
UserExists(u) == UserRecord(u) \in DOMAIN store /\ store[UserRecord(u)].t = "hash"

\* C11: get_user_booking_history for a user whose record exists and whose
\* relationship list is absent (an empty list is an absent key) returns the
\* empty sequence.
C11_NoBookingsEmpty ==
  (history.kind = "list" /\ connection = "live" /\ UserExists(history.user)
     /\ BookingsOf(history.user) \notin DOMAIN store)
    => history.val = <<>>

\* the history of a migrated user without bookings was read while another
\* user has bookings
C11_Witness ==
  /\ history.kind = "list" /\ connection = "live"
  /\ UserExists(history.user)
  /\ BookingsOf(history.user) \notin DOMAIN store
  /\ \E u \in 1..MaxUsers : StoredList(u) # <<>>

\* C12: get_user_booking_history for a user id without a record returns a
\* not-found outcome, different from the empty sequence it returns for an
\* existing user without bookings.
C12_NotFoundDistinct ==
  (history.kind = "list" /\ connection = "live"
     /\ UserRecord(history.user) \notin DOMAIN store)
    => history.val # <<>>

\* C13: get_user_by_email returns the same not-found value (None) when the key
\* user:email:{email} is absent and when the id it holds has no record
\* user:{id}; otherwise it returns the record of the indexed user.
C13_EitherHopNotFound ==
  (answer.op = "get_user_by_email" /\ connection = "live") =>
    LET k == "user:email:" \o answer.arg IN
      IF k \notin DOMAIN store THEN answer.val = [py |-> "None", v |-> <<>>]
      ELSE IF store[k].t # "string" THEN TRUE
      ELSE IF ("user:" \o store[k].v) \notin DOMAIN store
      THEN answer.val = [py |-> "None", v |-> <<>>]
      ELSE IF store["user:" \o store[k].v].t # "hash" THEN TRUE
      ELSE answer.val = [py |-> "dict", v |-> store["user:" \o store[k].v].v]

\* C14: after a successful migration onto an empty store get_hotels_by_city(c)
\* returns one record per source hotel whose city is c and nothing else (the
\* empty list when there is none), and get_bookings_by_date(d) returns one
\* record per source booking whose date is d and nothing else.
C14_IndexQueriesExact ==
  (SucceededOnEmpty /\ connection = "live") =>
    /\ answer.op = "get_hotels_by_city" =>
         LET here == {i \in 1..Len(mysql_data.hotels) :
                        mysql_data.hotels[i].city = answer.arg}
         IN /\ answer.val.py = "list"
            /\ Len(answer.val.v) = Cardinality(here)
            /\ Elements(answer.val.v) =
                 {[id |-> IdText(mysql_data.hotels[i].id),
                   name |-> mysql_data.hotels[i].name,
                   city |-> mysql_data.hotels[i].city,
                   created_at |-> CreatedAtText] : i \in here}
    /\ answer.op = "get_bookings_by_date" =>
         LET thatDay == {i \in 1..Len(mysql_data.bookings) :
                        DateText(mysql_data.bookings[i].date) = answer.arg}
         IN /\ answer.val.py = "list"
            /\ Len(answer.val.v) = Cardinality(thatDay)
            /\ Elements(answer.val.v) =
                 {[id |-> IdText(mysql_data.bookings[i].id),
                   user_id |-> IdText(mysql_data.bookings[i].user_id),
                   hotel_id |-> IdText(mysql_data.bookings[i].hotel_id),
                   date |-> DateText(mysql_data.bookings[i].date),
                   created_at |-> CreatedAtText] : i \in thatDay}

\* the hotels of New York were asked for after a migration of one hotel there
\* and one in Paris
C14_Witness ==
  /\ SucceededOnEmpty /\ connection = "live"
  /\ answer.op = "get_hotels_by_city" /\ answer.arg = "New York"
  /\ Len(answer.val.v) = 1
  /\ Len(mysql_data.hotels) = 2

\* every booking of the snapshot references a user and a hotel of the snapshot
ValidForeignKeys ==
  \A i \in 1..Len(mysql_data.bookings) :
    /\ \E j \in 1..Len(mysql_data.users) :
         mysql_data.users[j].id = mysql_data.bookings[i].user_id
    /\ \E j \in 1..Len(mysql_data.hotels) :
         mysql_data.hotels[j].id = mysql_data.bookings[i].hotel_id

\* the hotel row a booking references
HotelOf(b) ==
  mysql_data.hotels[CHOOSE j \in 1..Len(mysql_data.hotels) :
                      mysql_data.hotels[j].id = b.hotel_id]

\* the booking and hotel fields of a history entry
Joined(e) ==
  [booking_id |-> e.booking_id, date |-> e.date, hotel_id |-> e.hotel_id,
   hotel_name |-> e.hotel_name, hotel_city |-> e.hotel_city]

\* C15: after a successful migration of a snapshot with valid foreign keys onto
\* an empty store get_user_booking_history(u) returns one entry per source
\* booking of user u and no other; the entry of booking b carries the id and
\* date of b and the id, name and city of the hotel b references.
C15_HistoryJoinsHotel ==
  (SucceededOnEmpty /\ connection = "live" /\ history.kind = "list"
     /\ ValidForeignKeys) =>
    LET mine == {i \in 1..Len(mysql_data.bookings) :
                   mysql_data.bookings[i].user_id = history.user}
    IN /\ Len(history.val) = Cardinality(mine)
       /\ {Joined(history.val[k]) : k \in 1..Len(history.val)} =
            {[booking_id |-> IdText(mysql_data.bookings[i].id),
              date |-> DateText(mysql_data.bookings[i].date),
              hotel_id |-> IdText(HotelOf(mysql_data.bookings[i]).id),
              hotel_name |-> HotelOf(mysql_data.bookings[i]).name,
              hotel_city |-> HotelOf(mysql_data.bookings[i]).city] : i \in mine}

\* the history of a user with bookings at two different hotels has been read
C15_Witness ==
  /\ SucceededOnEmpty /\ connection = "live" /\ history.kind = "list"
  /\ ValidForeignKeys
  /\ Len(history.val) = 2
  /\ history.val[1].hotel_name # history.val[2].hotel_name

\* the entries a history must have: one per id of the list whose booking
\* record exists
Listed(u) ==
  {k \in 1..Len(StoredList(u)) : ("booking:" \o StoredList(u)[k]) \in DOMAIN store}

\* key holds a value of type t
Holds(key, t) == IF key \in DOMAIN store THEN store[key].t = t ELSE FALSE

\* C16: the slot computation never affects what a query returns, even when it
\* fails: search_user_by_id returns the record of an existing user and
\* get_user_booking_history one entry per listed booking, whatever
\* get_hash_slot does for the keys they touch.
C16_SlotNeverAffects ==
  /\ (answer.op = "search_user_by_id" /\ connection = "live"
        /\ Holds("user:" \o answer.arg, "hash")
        /\ ~Holds("user:" \o answer.arg \o ":bookings", "string"))
       => answer.val = [py |-> "dict", v |-> store["user:" \o answer.arg].v]
  /\ (history.kind = "list" /\ connection = "live"
        /\ ~HistoryRaises(store, history.user) /\ UserExists(history.user))
       => Len(history.val) = Cardinality(Listed(history.user))

\* C17: a read that fails during a query propagates to the caller: when the
\* server cannot be reached the caller observes something other than the
\* no-data result of the query ([] for the list queries, None for the record
\* queries).
C17_ReadFailurePropagates ==
  connection = "dead" =>
    /\ history.kind = "list" => history.val # <<>>
    /\ answer.op \in {"get_hotels_by_city", "get_bookings_by_date", "get_all_users"}
         => answer.val # [py |-> "list", v |-> <<>>]
    /\ answer.op \in {"get_user_by_email", "search_user_by_id"}
         => answer.val # [py |-> "None", v |-> <<>>]

(***************************************************************************)
(* Ordering properties                                                     *)
(***************************************************************************)
\* a step that ends with the answer of a query (every other step that changes
\* the store or the run clears the answers)
QueryIssued == history'.kind = "list" \/ answer'.op # "none"

\* C18: no query is issued before migrate_data has returned, none after it
\* returned the failure signal, and the snapshot is read before the first
\* write to the destination and is not read again.
C18_QueriesAfterMigration ==
  [][/\ QueryIssued => (pc = "idle" /\ result.kind = "stats")
     /\ store' # store /\ store' # EmptyStore => SnapshotRead
     /\ SnapshotRead => mysql_data' = mysql_data
     /\ ~SnapshotRead => (store = EmptyStore /\ writes = <<>> /\ result.kind = "pending")
    ]_vars

\* a query has been answered after a migration that wrote to the store
C18_Witness ==
  /\ answer.op = "get_user_by_email" /\ answer.val.py = "dict"
  /\ result.kind = "stats" /\ writes # <<>>

\* the commands of one row in the order of lines 161-172, 191-200 and 220-235,
\* each with the value it writes
RowSequence(entity, r) ==
  IF entity = "users" THEN
    <<[op |-> "hset", key |-> UserRecord(r.id), id |-> r.id,
       val |-> [id |-> IdText(r.id), name |-> r.name, email |-> r.email,
                created_at |-> CreatedAtText]],
      [op |-> "sadd", key |-> "users:all", id |-> r.id, val |-> IdText(r.id)],
      [op |-> "set", key |-> "user:email:" \o r.email, id |-> r.id,
       val |-> IdText(r.id)]>>
  ELSE IF entity = "hotels" THEN
    <<[op |-> "hset", key |-> HotelRecord(r.id), id |-> r.id,
       val |-> [id |-> IdText(r.id), name |-> r.name, city |-> r.city,
                created_at |-> CreatedAtText]],
      [op |-> "sadd", key |-> "hotels:all", id |-> r.id, val |-> IdText(r.id)],
      [op |-> "sadd", key |-> "hotels:city:" \o r.city, id |-> r.id,
       val |-> IdText(r.id)]>>
  ELSE
    <<[op |-> "hset", key |-> BookingRecord(r.id), id |-> r.id,
       val |-> [id |-> IdText(r.id), user_id |-> IdText(r.user_id),
                hotel_id |-> IdText(r.hotel_id), date |-> DateText(r.date),
                created_at |-> CreatedAtText]],
      [op |-> "lpush", key |-> BookingsOf(r.user_id), id |-> r.id, val |-> IdText(r.id)],
      [op |-> "sadd", key |-> "bookings:date:" \o DateText(r.date), id |-> r.id,
       val |-> IdText(r.id)],
      [op |-> "sadd", key |-> "bookings:all", id |-> r.id, val |-> IdText(r.id)]>>

\* the commands of the rows of a table from row i on, in snapshot order
RECURSIVE TableSequence(_, _)
TableSequence(entity, i) ==
  IF i > Len(mysql_data[entity]) THEN <<>>
  ELSE RowSequence(entity, mysql_data[entity][i]) \o TableSequence(entity, i + 1)

\* all the commands of a migration: users, then hotels, then bookings
ExpectedWrites ==
  TableSequence("users", 1) \o TableSequence("hotels", 1) \o TableSequence("bookings", 1)

\* C19: the writes of migrate_data are issued in the order users, hotels,
\* bookings, the rows of a table in snapshot order, the commands of a row in
\* the order hset, membership sadd, email set / city sadd (user, hotel) and
\* hset, lpush, date sadd, membership sadd (booking): at every moment the
\* commands issued so far are a prefix of that sequence, and all of it on success.
C19_WriteOrder ==
  (pc \in Phases \cup {"finish"} \/ (pc = "idle" /\ result.kind = "stats")) =>
    LET expected == ExpectedWrites IN
      /\ Len(writes) <= Len(expected)
      /\ \A k \in 1..Len(writes) :
           /\ writes[k].op = expected[k].op
           /\ writes[k].key = expected[k].key
           /\ writes[k].id = expected[k].id
      /\ pc \in {"finish", "idle"} => Len(writes) = Len(expected)

\* a migration of two users, two hotels and two bookings has issued all its writes
C19_Witness ==
  /\ pc = "finish"
  /\ Len(mysql_data.users) = 2 /\ Len(mysql_data.hotels) = 2
  /\ Len(mysql_data.bookings) = 2
  /\ Len(writes) = 20

\* the store after one command
Effect(s, e) ==
  LET old == IF e.key \in DOMAIN s THEN s[e.key].v
             ELSE IF e.op = "sadd" THEN {} ELSE <<>>
      new == IF e.op = "hset" THEN [t |-> "hash", v |-> e.val @@ old]
             ELSE IF e.op = "sadd" THEN [t |-> "set", v |-> old \cup {e.val}]
             ELSE IF e.op = "lpush" THEN [t |-> "list", v |-> <<e.val>> \o old]
             ELSE [t |-> "string", v |-> e.val]
  IN [k \in DOMAIN s \cup {e.key} |-> IF k = e.key THEN new ELSE s[k]]

\* the store after the first n of the commands, issued on store s
RECURSIVE Replay(_, _, _)
Replay(s, commands, n) ==
  IF n = 0 THEN s ELSE Effect(Replay(s, commands, n - 1), commands[n])

\* the store a run starts on when r runs have succeeded since the last clearing
RECURSIVE StartStore(_, _)
StartStore(commands, r) ==
  IF r = 0 THEN EmptyStore
  ELSE Replay(StartStore(commands, r - 1), commands, Len(commands))

\* C20: when a write fails migrate_data issues no further write, undoes nothing
\* and returns the failure signal: the failing write is the last one logged,
\* every write before it returned, and the store holds exactly the effects of
\* those writes on the store the run started with.
C20_PartialPrefix ==
  (pc = "idle" /\ writes # <<>> /\ \E k \in 1..Len(writes) : ~writes[k].ok) =>
    LET expected == ExpectedWrites IN
      /\ result.kind = "None"
      /\ \A k \in 1..Len(writes) : writes[k].ok <=> k < Len(writes)
      /\ Len(writes) <= Len(expected)
      /\ \A k \in 1..Len(writes) :
           writes[k].op = expected[k].op /\ writes[k].key = expected[k].key
      /\ store = Replay(StartStore(expected, runs), expected, Len(writes) - 1)

\* the run failed at the write that adds the first user to users:all: the
\* record exists, the membership index does not
C20_Witness ==
  /\ pc = "idle" /\ result.kind = "None"
  /\ Len(writes) = 2 /\ ~writes[2].ok
  /\ "user:1" \in DOMAIN store /\ "users:all" \notin DOMAIN store

(***************************************************************************)
(* Integrity hazards, retries and verification                             *)
(***************************************************************************)
\* the position of the last user of the snapshot that has this email
LastWith(email) ==
  CHOOSE i \in 1..Len(mysql_data.users) :
    /\ mysql_data.users[i].email = email
    /\ \A j \in 1..Len(mysql_data.users) : mysql_data.users[j].email = email => j <= i

\* two users of the snapshot share an email
SharedEmail ==
  \E i, j \in 1..Len(mysql_data.users) :
    i # j /\ mysql_data.users[i].email = mysql_data.users[j].email

\* C21: users that share an email do not make the migration fail: the SET of
\* the email key can always be issued, and after the migration the key
\* user:email:{email} holds the id of the last user of the snapshot with that
\* email, while every user still has its record and its id in users:all.
C21_LastEmailWins ==
  /\ (pc = "users" /\ step = 3 /\ connection = "live") => ENABLED UserSetEmail
  /\ Succeeded =>
       \A i \in 1..Len(mysql_data.users) :
         LET u == mysql_data.users[i]
             k == "user:email:" \o u.email
         IN /\ k \in DOMAIN store
            /\ store[k] = [t |-> "string",
                           v |-> IdText(mysql_data.users[LastWith(u.email)].id)]
            /\ UserRecord(u.id) \in DOMAIN store
            /\ store[UserRecord(u.id)].v.email = u.email
            /\ IdText(u.id) \in StoredSet("users:all")

\* a snapshot whose two users share an email has been migrated
C21_Witness ==
  /\ SucceededOnEmpty /\ SharedEmail
  /\ store["user:email:" \o mysql_data.users[1].email].v = "2"
  /\ Cardinality(StoredSet("users:all")) = 2

\* the snapshot has a user row / a hotel row with this id
HasUser(id) == \E j \in 1..Len(mysql_data.users) : mysql_data.users[j].id = id
HasHotel(id) == \E j \in 1..Len(mysql_data.hotels) : mysql_data.hotels[j].id = id

\* C22: orphaned foreign keys are not detected. The writes of a booking row can
\* be issued whatever it references; after the migration every booking is
\* counted and recorded and its id is in user:{user_id}:bookings, also when no
\* record user:{user_id} exists; get_user_booking_history for an existing user
\* returns one entry per booking, with hotel fields None when the hotel record
\* is missing.
C22_OrphansUnsignaled ==
  /\ (pc = "bookings" /\ connection = "live") =>
       ENABLED (BookingHset \/ BookingLpush \/ BookingSaddDate \/ BookingSaddAll)
  /\ SucceededOnEmpty =>
       /\ result.stats.bookings = Len(mysql_data.bookings)
       /\ \A i \in 1..Len(mysql_data.bookings) :
            LET b == mysql_data.bookings[i] IN
              /\ BookingRecord(b.id) \in DOMAIN store
              /\ IdText(b.id) \in Elements(StoredList(b.user_id))
              /\ HasUser(b.user_id) <=> UserRecord(b.user_id) \in DOMAIN store
       /\ (history.kind = "list" /\ connection = "live" /\ HasUser(history.user)) =>
            /\ Len(history.val) =
                 Cardinality({i \in 1..Len(mysql_data.bookings) :
                                mysql_data.bookings[i].user_id = history.user})
            /\ \A k \in 1..Len(history.val) :
                 \E i \in 1..Len(mysql_data.bookings) :
                   LET b == mysql_data.bookings[i] IN
                     /\ history.val[k].booking_id = IdText(b.id)
                     /\ b.user_id = history.user
                     /\ history.val[k].date = DateText(b.date)
                     /\ IF HasHotel(b.hotel_id)
                        THEN history.val[k].hotel_id = IdText(b.hotel_id)
                        ELSE /\ history.val[k].hotel_id = PyNone
                             /\ history.val[k].hotel_name = PyNone
                             /\ history.val[k].hotel_city = PyNone

\* a booking of a user without a row and a booking at a hotel without a row
\* were migrated, and the history of the existing user has been read
C22_Witness ==
  /\ SucceededOnEmpty /\ connection = "live"
  /\ \E i \in 1..Len(mysql_data.bookings) :
       /\ ~HasUser(mysql_data.bookings[i].user_id)
       /\ StoredList(mysql_data.bookings[i].user_id) # <<>>
  /\ history.kind = "list" /\ HasUser(history.user)
  /\ Len(history.val) >= 1
  /\ history.val[1].hotel_name = PyNone

\* the positions of the attempts in the log of the connect call
Tries == {k \in 1..Len(dial.log) : dial.log[k].e # "sleep"}

\* C23: a connect called with max_retries >= 1 makes at most max_retries
\* attempts, returns True at its first successful attempt and attempts nothing
\* after it, sleeps retry_delay only after a failed attempt that is not the
\* last, and ends by raising exactly when max_retries attempts have all
\* failed; it never ends in another way.
C23_ConnectRetries ==
  (dial.who # "none" /\ dial.max_retries >= 1) =>
    /\ Cardinality(Tries) <= dial.max_retries
    /\ \A k \in 1..Len(dial.log) :
         /\ dial.log[k].e = "ok" => (k = Len(dial.log) /\ dial.outcome = "True")
         /\ dial.log[k].e = "sleep" =>
              /\ dial.log[k].secs = dial.retry_delay
              /\ k > 1
              /\ dial.log[k - 1].e \in {"raise", "down"}
              /\ (k < Len(dial.log) \/ dial.outcome = "running")
    /\ dial.outcome = "True" =>
         (dial.log # <<>> /\ dial.log[Len(dial.log)].e = "ok")
    /\ dial.outcome = "raised" <=>
         /\ Cardinality(Tries) = dial.max_retries
         /\ \A k \in Tries : dial.log[k].e # "ok"
    /\ dial.outcome \in {"running", "True", "raised"}

\* C24: verification is advisory.  The step of verify_migration leaves the
\* destination store and the counters migrate_data returned as they are and
\* always ends in the return of migrate_to_redis, whether its reads all
\* returned or one of them raised; migrate_to_redis returns the counters
\* migrate_data returned; and a step that answers a query of the Query Layer
\* leaves the store unchanged.
C24_VerificationAdvisory ==
  [][/\ pc = "verify" =>
          /\ store' = store
          /\ result = Returned(stats)
          /\ result' = result
          /\ pc' = "return"
          /\ verification'.outcome \in {"complete", "error"}
     /\ pc = "return" =>
          /\ store' = store
          /\ result = Returned(stats)
          /\ result' = result
          /\ pc' = "idle"
     /\ QueryIssued => store' = store]_vars

\* a verification that failed after it had read a booking of user 1, with the
\* counters of a migration that wrote bookings about to be returned
C24_Witness ==
  /\ pc = "return"
  /\ verification.outcome = "error"
  /\ Len(verification.read) >= 3
  /\ result.kind = "stats"
  /\ result.stats.bookings > 0

====
